---- MODULE Spec2Model ----
(***************************************************************************)
(* Model of the autonomous agent subsystem of ml-platform: Decision        *)
(* Engine, Approval Manager, Action Executor and the orchestrator cycle.   *)
(* Python objects live in two heaps (actions, requests); lists of objects  *)
(* are sequences of heap indices, so that aliasing behaves as in Python.   *)
(* Specifications: Spec (agent and reviewer), SpecManager (the              *)
(* ApprovalManager interface), SpecBusy (cycles with several Actions of    *)
(* each kind), SpecDecision (run_full_diagnosis and recommend_actions),    *)
(* SpecLoop (start() and stop()), SpecRollback (the Executor on the        *)
(* production directory), SpecRestart (an ApprovalManager built anew over  *)
(* the log), SpecDrain (get_approved_actions interleaved with the          *)
(* reviewer), SpecContinuous (continuous mode without reviewer).           *)
(***************************************************************************)
EXTENDS Integers, Sequences, FiniteSets, TLC

VARIABLES
    now,                \* datetime.now(), in clock ticks
    dry_run,            \* ActionExecutor.dry_run
    actions,            \* heap of Action objects
    requests,           \* heap of ApprovalRequest objects
    pending_requests,   \* ApprovalManager.pending_requests (request indices)
    queue_file,         \* lines of approval_queue.jsonl
    execution_history,  \* ActionExecutor.execution_history
    cycle_count,        \* AutonomousAgent.cycle_count
    pc,                 \* position of the orchestrator inside a cycle
    cycle,              \* locals of the running run_execution_cycle
    summary,            \* value returned by the last finished cycle
    last_call,          \* the ApprovalManager call that just returned, if any
    exec_trace,         \* one entry per ActionExecutor.execute call
    review_log,         \* per request: what the reviewer calls returned
    drain_log,          \* one entry per get_approved_actions call
    approved_since_drain, \* approve_request returned True since the last drain
    events,             \* state-changing calls made from outside so far
    log_writable,       \* whether an append to approval_queue.jsonl succeeds
    eng_pc,             \* position inside run_full_diagnosis / recommend_actions
    current_data,       \* run_full_diagnosis argument: None or a dataset
    predictions,        \* run_full_diagnosis argument: None or predictions
    issue_list,         \* all_issues of run_full_diagnosis / issues of recommend_actions
    check_log,          \* one entry per diagnostic check that was called
    approve_low_risk, \* DecisionEngine.approve_low_risk
    decided_actions,    \* all_actions of recommend_actions before the auto-approval pass
    recommended_actions, \* DecisionEngine.recommended_actions
    running,            \* AutonomousAgent.running
    loop_pc,            \* position of the thread that called start()
    loop_log,           \* cycles begun and ended, exceptions and stop() calls of start()
    model_dir,          \* settings.production_model_dir: the *.joblib files
    write_clock,        \* modification time of the last file written
    dir_log,            \* per execute call: the directory before and after
    restart_log,        \* per ApprovalManager built anew: what was awaiting review
    drain_pc,           \* position inside a get_approved_actions another thread can interleave with
    drain_ret,          \* the list "approved" of that get_approved_actions
    removal_log         \* per such get_approved_actions: what it returned and removed

agent_vars == <<now, dry_run, actions, requests, pending_requests, queue_file,
                execution_history, cycle_count, pc, cycle, summary, last_call,
                exec_trace, review_log, drain_log, approved_since_drain, events,
                log_writable>>

engine_vars == <<eng_pc, current_data, predictions, issue_list, check_log,
                 approve_low_risk, decided_actions, recommended_actions>>

loop_vars == <<running, loop_pc, loop_log>>

dir_vars == <<model_dir, write_clock, dir_log>>

mgr_vars == <<restart_log, drain_pc, drain_ret, removal_log>>

\* what the agent, the engines and start() leave alone
side_vars == <<dir_vars, mgr_vars>>

vars == <<agent_vars, engine_vars, loop_vars, side_vars>>

(***************************************************************************)
(* Bounds of the model.                                                    *)
(***************************************************************************)
\* calls made from outside over a behaviour that can change the state:
\* cycles started, calls of the ApprovalManager interface other than the
\* pure reads, and advances of the clock
MaxEvents == 4

(***************************************************************************)
(* Time.                                                                   *)
(***************************************************************************)
\* datetime.now() has sub-second resolution, the ids keep whole seconds
TicksPerSecond == 2

\* largest number of drifted features a drift summary reports
MaxDrifted == 5

\* longest list of Issues a caller hands to recommend_actions
MaxIssues == 2

\* cycles run over a behaviour of the agent whose cycles handle several
\* Issues
MaxCycles == 2

\* execute calls made on Actions handed to the Executor directly
MaxExecs == 3

\* timedelta(hours=24) and timedelta(days=1)
ExpiryTicks == 24 * 3600 * TicksPerSecond
DayTicks == 24 * 3600 * TicksPerSecond

\* the instants the clock is read at: a start, an instant within the same
\* second, the instant a request created at the start expires at, and
\* the first instant after it
Times == {0, 1, ExpiryTicks, ExpiryTicks + 1}

\* strftime('%Y%m%d%H%M%S'): the timestamp truncated to whole seconds
StrftimeSeconds(t) == t \div TicksPerSecond

None == "None"

(***************************************************************************)
(* Small sequence helpers.                                                 *)
(***************************************************************************)
Range(s) == {s[i] : i \in 1..Len(s)}

Min(S) == CHOOSE x \in S : \A y \in S : x <= y

RECURSIVE Concat(_)
Concat(ss) == IF ss = <<>> THEN <<>> ELSE Head(ss) \o Concat(Tail(ss))

\* indices n+1 .. n+k as a sequence
Fresh(n, k) == [i \in 1..k |-> n + i]

(***************************************************************************)
(* Issue and Action records.                                               *)
(***************************************************************************)
\* Issue: details["n_drifted_features"] and details["ratio"] (in percent)
\* are the only entries of details the Decision Engine reads for routing.
Issue(issue_type, severity, n_drifted_features, ratio) ==
    [issue_type |-> issue_type, severity |-> severity,
     n_drifted_features |-> n_drifted_features, ratio |-> ratio]

\* Action.__init__: status starts "pending", action_id is the creation
\* time at second resolution.  param stands for the one entry of
\* parameters that distinguishes the action (priority, report_type,
\* validation_type or trigger).
Action(action_type, risk_level, param, related_issue, requires_approval, t) ==
    [action_type |-> action_type, risk_level |-> risk_level,
     param |-> param, related_issue |-> related_issue,
     requires_approval |-> requires_approval,
     action_id |-> StrftimeSeconds(t), status |-> "pending"]

(***************************************************************************)
(* Decision Engine.                                                        *)
(***************************************************************************)
ActionTypes == {"retrain_model", "rollback_model", "send_alert",
                "adjust_threshold", "collect_diagnostics", "validate_data",
                "generate_report"}

action_templates ==
    [ty \in ActionTypes |->
        CASE ty = "retrain_model"  -> [risk_level |-> "medium", requires_approval |-> TRUE]
          [] ty = "rollback_model" -> [risk_level |-> "high", requires_approval |-> TRUE]
          [] OTHER                 -> [risk_level |-> "low", requires_approval |-> FALSE]]

FromTemplate(ty, param, issue, t) ==
    Action(ty, action_templates[ty].risk_level, param, issue.issue_type,
           action_templates[ty].requires_approval, t)

create_alert_action(issue, priority, t) == FromTemplate("send_alert", priority, issue, t)

create_diagnostics_action(issue, t) ==
    FromTemplate("collect_diagnostics", issue.issue_type, issue, t)

create_report_action(issue, report_type, t) ==
    FromTemplate("generate_report", report_type, issue, t)

\* Variant of _handle_data_drift that decides on the severity alone.
handle_data_drift_by_severity(issue, t) ==
    <<create_alert_action(issue, "normal", t)>>
    \o (IF issue.severity \in {"high", "critical"}
        THEN <<FromTemplate("retrain_model", "data_drift", issue, t)>>
        ELSE <<>>)
    \o <<create_report_action(issue, "drift_analysis", t)>>

handle_data_drift(issue, t) ==
    <<create_alert_action(issue, "normal", t)>>
    \o (IF issue.severity \in {"high", "critical"} \/ issue.n_drifted_features >= 5
        THEN <<FromTemplate("retrain_model", "data_drift", issue, t)>>
        ELSE <<>>)
    \o <<create_report_action(issue, "drift_analysis", t)>>

\* Variant of _handle_performance_degradation that rolls back from
\* severity high on.
handle_performance_degradation_eager(issue, t) ==
    <<create_alert_action(issue, "high", t), create_diagnostics_action(issue, t)>>
    \o (IF issue.severity \in {"high", "critical"}
        THEN <<Action("rollback_model", action_templates["rollback_model"].risk_level,
                      "performance_degradation", issue.issue_type, TRUE, t)>>
        ELSE <<FromTemplate("retrain_model", "performance_degradation", issue, t)>>)

handle_performance_degradation(issue, t) ==
    <<create_alert_action(issue, "high", t), create_diagnostics_action(issue, t)>>
    \o (IF issue.severity = "critical"
        THEN <<Action("rollback_model", action_templates["rollback_model"].risk_level,
                      "performance_degradation", issue.issue_type, TRUE, t)>>
        ELSE <<FromTemplate("retrain_model", "performance_degradation", issue, t)>>)

handle_prediction_anomaly(issue, t) ==
    <<create_alert_action(issue, "normal", t), create_diagnostics_action(issue, t),
      FromTemplate("validate_data", "schema_and_distribution", issue, t)>>

handle_low_confidence(issue, t) ==
    <<create_alert_action(issue, "normal", t)>>
    \o (IF issue.ratio > 40
        THEN <<FromTemplate("retrain_model", "low_confidence", issue, t)>>
        ELSE <<>>)

handle_data_quality(issue, t) ==
    <<create_alert_action(issue, "normal", t),
      FromTemplate("validate_data", "full", issue, t)>>

decide_action_for_issue(issue, t) ==
    CASE issue.issue_type = "data_drift" -> handle_data_drift(issue, t)
      [] issue.issue_type = "performance_degradation" -> handle_performance_degradation(issue, t)
      [] issue.issue_type = "prediction_anomaly" -> handle_prediction_anomaly(issue, t)
      [] issue.issue_type = "low_confidence" -> handle_low_confidence(issue, t)
      [] issue.issue_type = "data_quality" -> handle_data_quality(issue, t)
      [] OTHER -> <<create_alert_action(issue, "normal", t),
                    create_diagnostics_action(issue, t)>>

\* Variant of the auto-approval pass that looks at no risk level.
AutoApproveAnyRisk(a, auto_approve_low_risk) ==
    IF auto_approve_low_risk
    THEN [a EXCEPT !.requires_approval = FALSE]
    ELSE a

\* the auto-approval pass of recommend_actions on one Action
AutoApprove(a, auto_approve_low_risk) ==
    IF auto_approve_low_risk /\ a.risk_level = "low"
    THEN [a EXCEPT !.requires_approval = FALSE]
    ELSE a

recommend_actions(issues, auto_approve_low_risk, t) ==
    LET all_actions == Concat([i \in 1..Len(issues) |-> decide_action_for_issue(issues[i], t)])
    IN  [i \in 1..Len(all_actions) |-> AutoApprove(all_actions[i], auto_approve_low_risk)]

(***************************************************************************)
(* ApprovalRequest.                                                        *)
(***************************************************************************)
NoTime == -1      \* reviewed_at = None

\* ApprovalRequest.__init__
ApprovalRequest(action, t) ==
    [action |-> action, request_id |-> StrftimeSeconds(t), created_at |-> t,
     status |-> "pending", reviewed_by |-> None, reviewed_at |-> NoTime,
     review_comment |-> None, expires_at |-> t + ExpiryTicks]

\* ApprovalRequest.approve
approve(req, reviewer, comment, t) ==
    [req EXCEPT !.status = "approved", !.reviewed_by = reviewer,
                !.reviewed_at = t, !.review_comment = comment]

\* ApprovalRequest.reject
reject(req, reviewer, comment, t) ==
    [req EXCEPT !.status = "rejected", !.reviewed_by = reviewer,
                !.reviewed_at = t, !.review_comment = comment]

\* is_expired with the deadline one tick late
is_expired_late(req, t) == t > req.expires_at + 1

\* ApprovalRequest.is_expired
is_expired(req, t) == t > req.expires_at

\* the expired branch of approve_request reopening the request
MarkExpiredAsPending(req) == [req EXCEPT !.status = "pending"]

\* the status approve_request gives a request it finds expired
MarkExpired(req) == [req EXCEPT !.status = "expired"]

\* ApprovalRequest.to_dict, with Action.to_dict of the wrapped Action
to_dict(req, acts) ==
    [request_id |-> req.request_id, action |-> acts[req.action],
     status |-> req.status, created_at |-> req.created_at,
     expires_at |-> req.expires_at, reviewed_by |-> req.reviewed_by,
     reviewed_at |-> req.reviewed_at, review_comment |-> req.review_comment]

(***************************************************************************)
(* ApprovalManager.                                                        *)
(***************************************************************************)
\* outcome of the open()/write() of a save: the append succeeds or raises
IOOutcomes == IF log_writable THEN {"ok"} ELSE {"error"}

\* _save_request: the line is appended unless the append raised, in
\* which case the exception is logged and swallowed
save_request(file, req, acts, io) ==
    IF io = "ok" THEN Append(file, to_dict(req, acts)) ELSE file

\* the loop "for request in self.pending_requests: if request.request_id
\* == request_id": the first request of the list with that id, 0 if none
FindRequest(request_id) ==
    LET hits == {i \in 1..Len(pending_requests) :
                    requests[pending_requests[i]].request_id = request_id}
    IN  IF hits = {} THEN 0 ELSE pending_requests[Min(hits)]

\* the purge of get_pending_requests without its is_expired test
PurgedListKeepingExpired(include_expired) ==
    IF ~include_expired
    THEN SelectSeq(pending_requests, LAMBDA r : requests[r].status = "pending")
    ELSE pending_requests

\* the list get_pending_requests leaves in self.pending_requests
PurgedList(include_expired) ==
    IF ~include_expired
    THEN SelectSeq(pending_requests,
                   LAMBDA r : ~is_expired(requests[r], now) /\ requests[r].status = "pending")
    ELSE pending_requests

\* the collection pass of get_approved_actions without its status test
ApprovedActionsOfAll ==
    [i \in 1..Len(pending_requests) |-> requests[pending_requests[i]].action]

\* Variant of the collection pass of get_approved_actions that returns the
\* approved Actions newest request first.
ApprovedActionsNewestFirst ==
    LET approved == SelectSeq(pending_requests, LAMBDA r : requests[r].status = "approved")
    IN  [i \in 1..Len(approved) |-> requests[approved[Len(approved) + 1 - i]].action]

\* the list get_approved_actions returns
ApprovedActions ==
    LET approved == SelectSeq(pending_requests, LAMBDA r : requests[r].status = "approved")
    IN  [i \in 1..Len(approved) |-> requests[approved[i]].action]

\* the removal pass of get_approved_actions removing rejected requests only
DrainedListKeepingApproved ==
    SelectSeq(pending_requests, LAMBDA r : requests[r].status /= "rejected")

\* the list get_approved_actions leaves in self.pending_requests
DrainedList ==
    SelectSeq(pending_requests, LAMBDA r : requests[r].status \notin {"approved", "rejected"})

\* the list cleanup_old_requests leaves in self.pending_requests
CleanedList(days) ==
    SelectSeq(pending_requests,
              LAMBDA r : requests[r].status = "pending"
                         \/ requests[r].created_at > now - days * DayTicks)

(***************************************************************************)
(* ActionExecutor.                                                         *)
(***************************************************************************)
executor_map == {"retrain_model", "rollback_model", "send_alert",
                 "adjust_threshold", "collect_diagnostics", "validate_data",
                 "generate_report"}

\* what a handler can do: return a successful result, return a failed
\* result, or let an exception escape
HandlerOutcomes == {"success", "failure", "raise"}

\* Variant of execute() whose dispatch comes before the dry-run return.
OutcomesBeforeDryRun(a) ==
    IF a.action_type \notin executor_map
    THEN {"not_invoked"}
    ELSE {"success", "failure", "raise"}

\* the handler is invoked only past the dry-run return and the lookup
Outcomes(a) ==
    IF dry_run \/ a.action_type \notin executor_map
    THEN {"not_invoked"}
    ELSE HandlerOutcomes

ExecutionResult(success, message, error) ==
    [success |-> success, message |-> message, error |-> error]

\* execute() with an except clause that reports the handler's success
ExecuteResultHidingRaise(a, outcome) ==
    IF dry_run THEN ExecutionResult(TRUE, "[DRY RUN] Would execute", None)
    ELSE IF a.action_type \notin executor_map
         THEN ExecutionResult(FALSE, "Unknown action type", "Executor not implemented")
    ELSE IF outcome \in {"success", "raise"}
         THEN ExecutionResult(TRUE, "handler message", None)
    ELSE ExecutionResult(FALSE, "handler message", "handler error")

\* the ExecutionResult execute() returns
ExecuteResult(a, outcome) ==
    IF dry_run THEN ExecutionResult(TRUE, "[DRY RUN] Would execute", None)
    ELSE IF a.action_type \notin executor_map
         THEN ExecutionResult(FALSE, "Unknown action type", "Executor not implemented")
    ELSE IF outcome = "raise"
         THEN ExecutionResult(FALSE, "Execution error", "exception text")
    ELSE IF outcome = "success"
         THEN ExecutionResult(TRUE, "handler message", None)
    ELSE ExecutionResult(FALSE, "handler message", "handler error")

\* Variant of execute() that marks an Action without handler as failed.
ExecuteStatusFailingUnknown(a, outcome) ==
    IF dry_run THEN a.status
    ELSE IF a.action_type \notin executor_map THEN "failed"
    ELSE IF outcome = "raise" THEN "failed"
    ELSE IF ExecuteResult(a, outcome).success THEN "completed" ELSE "failed"

\* execute() with an except clause that forgets action.status
ExecuteStatusKeptOnRaise(a, outcome) ==
    IF dry_run \/ a.action_type \notin executor_map THEN a.status
    ELSE IF outcome = "raise" THEN a.status
    ELSE IF outcome = "success" THEN "completed" ELSE "failed"

\* action.status when execute() returns
ExecuteStatus(a, outcome) ==
    IF dry_run \/ a.action_type \notin executor_map THEN a.status
    ELSE IF outcome = "raise" THEN "failed"
    ELSE IF ExecuteResult(a, outcome).success THEN "completed" ELSE "failed"

\* Variant of the history step that records only the calls that reached a
\* handler.
ExecuteHistoryOfHandlers(a, outcome) ==
    IF dry_run \/ outcome = "not_invoked" THEN execution_history
    ELSE Append(execution_history,
                [action |-> [a EXCEPT !.status = ExecuteStatus(a, outcome)],
                 result |-> ExecuteResult(a, outcome)])

\* the execution history when execute() returns
ExecuteHistory(a, outcome) ==
    IF dry_run THEN execution_history
    ELSE Append(execution_history,
                [action |-> [a EXCEPT !.status = ExecuteStatus(a, outcome)],
                 result |-> ExecuteResult(a, outcome)])

\* ActionExecutor.execute on the Action object i, called from the given
\* loop ("auto" or "approved") of run_execution_cycle
execute(i, outcome, path) ==
    /\ actions' = [actions EXCEPT ![i].status = ExecuteStatus(actions[i], outcome)]
    /\ execution_history' = ExecuteHistory(actions[i], outcome)
    /\ exec_trace' = Append(exec_trace,
            [action |-> i, cycle |-> cycle.no, path |-> path, outcome |-> outcome,
             status_before |-> actions[i].status,
             status_after |-> ExecuteStatus(actions[i], outcome),
             result |-> ExecuteResult(actions[i], outcome)])

\* the entry run_execution_cycle appends to auto_results / approved_results
ResultEntry(a, outcome) ==
    [action_id |-> a.action_id, action_type |-> a.action_type,
     success |-> ExecuteResult(a, outcome).success,
     message |-> ExecuteResult(a, outcome).message]

(***************************************************************************)
(* Inputs.                                                                 *)
(***************************************************************************)
\* Issues a diagnosis may hand to a cycle
CycleIssues ==
    {Issue("low_confidence", "medium", 0, 50)}

\* what one diagnosis hands to the Decision Engine
Diagnoses == {<<>>} \cup {<<issue>> : issue \in CycleIssues}

\* Actions a caller of run_execution_cycle may have built itself
CallerActions(t) ==
    {Action("custom_action", "low", None, None, FALSE, t)}

\* Actions a caller of submit_for_approval may have built itself
SubmittedActions(t) ==
    {Action("retrain_model", "medium", "manual", None, TRUE, t)}

\* (reviewer, comment) arguments of approve_request / reject_request
Reviews == {<<"alice", None>>, <<"bob", "ok">>}
UnknownId == -1
CleanupDays == {1, 30}

(***************************************************************************)
(* Initial state: a freshly constructed AutonomousAgent.                   *)
(***************************************************************************)
IdleCycle(n) ==
    [no |-> n, kind |-> None, n_issues |-> 0, actions |-> <<>>,
     needs_approval |-> <<>>, auto_execute |-> <<>>, approved_actions |-> <<>>,
     pos |-> 0, auto_results |-> <<>>, approved_results |-> <<>>]

\* last_call describes the ApprovalManager call that returned in the last
\* step: its name, the request it acted on (0 if none), its boolean
\* argument, its boolean result and the list it returned.  Every other
\* step resets it to NoCall.
NoCall ==
    [op |-> None, target |-> 0, flag |-> FALSE, ok |-> FALSE, list |-> <<>>]

Call(op, target, flag, ok, list) ==
    [op |-> op, target |-> target, flag |-> flag, ok |-> ok, list |-> list]

NoSummary ==
    [kind |-> None, cycle_number |-> 0, issues_detected |-> 0, actions_recommended |-> 0,
     auto_executed |-> 0, submitted_for_approval |-> 0, approved_executed |-> 0,
     total_executed |-> 0]

\* AutonomousAgent.__init__ and the constructors it calls
AgentConstructed ==
    /\ now = 0
    /\ dry_run \in BOOLEAN
    /\ actions = <<>>
    /\ requests = <<>>
    /\ pending_requests = <<>>
    /\ queue_file = <<>>
    /\ execution_history = <<>>
    /\ cycle_count = 0
    /\ pc = "idle"
    /\ cycle = IdleCycle(0)
    /\ summary = NoSummary
    /\ last_call = NoCall
    /\ exec_trace = <<>>
    /\ review_log = <<>>
    /\ drain_log = <<>>
    /\ approved_since_drain = FALSE
    /\ events = 0
    /\ log_writable \in BOOLEAN

\* no diagnosis and no decision has been asked for
EngineIdle ==
    /\ eng_pc = "idle"
    /\ current_data = None
    /\ predictions = None
    /\ issue_list = <<>>
    /\ check_log = <<>>
    /\ approve_low_risk = TRUE
    /\ decided_actions = <<>>
    /\ recommended_actions = <<>>

\* start() has not been called
LoopIdle ==
    /\ running = FALSE
    /\ loop_pc = "new"
    /\ loop_log = <<>>

\* an empty production directory
DirEmpty ==
    /\ model_dir = {}
    /\ write_clock = 0
    /\ dir_log = <<>>

\* the first ApprovalManager, no get_approved_actions under way
MgrIdle ==
    /\ restart_log = <<>>
    /\ drain_pc = "idle"
    /\ drain_ret = <<>>
    /\ removal_log = <<>>

SideIdle == DirEmpty /\ MgrIdle

Init == AgentConstructed /\ EngineIdle /\ LoopIdle /\ SideIdle

(***************************************************************************)
(* The clock.                                                              *)
(***************************************************************************)
\* Only submit_for_approval, the Decision Engine and the reviewer calls read
\* the clock, so time that passes during the executions, the drain and the
\* return of a cycle is time that passes right after them.
Tick ==
    /\ pc \in {"idle", "submit"}
    /\ events < MaxEvents
    /\ \E t \in Times :
          /\ t > now
          /\ now' = t
    /\ events' = events + 1
    /\ last_call' = NoCall
    /\ UNCHANGED <<engine_vars, loop_vars, side_vars>>
    /\ UNCHANGED <<dry_run, actions, requests, pending_requests, queue_file,
                   execution_history, cycle_count, pc, cycle, summary,
                   exec_trace, review_log, drain_log, approved_since_drain, log_writable>>

(***************************************************************************)
(* The orchestrator: run_single_cycle / run_execution_cycle.               *)
(***************************************************************************)
AfterSubmit(auto) == IF auto /= <<>> THEN "auto" ELSE "drain"

\* run_execution_cycle up to the first call it makes: the partition of
\* the Actions by requires_approval
EnterExecution(new, kind, n_issues) ==
    LET base == Len(actions)
        idxs == Fresh(base, Len(new))
        auto == SelectSeq(idxs, LAMBDA i : ~new[i - base].requires_approval)
        needs == SelectSeq(idxs, LAMBDA i : new[i - base].requires_approval)
    IN  /\ pc = "idle"
        /\ actions' = actions \o new
        /\ cycle' = [IdleCycle(cycle.no + 1) EXCEPT
                        !.kind = kind, !.n_issues = n_issues, !.actions = idxs,
                        !.needs_approval = needs, !.auto_execute = auto]
        /\ pc' = IF needs /= <<>> THEN "submit" ELSE AfterSubmit(auto)
        /\ last_call' = NoCall

\* a cycle started from outside, counted as one event
StartExecution(new, kind, n_issues) ==
    /\ events < MaxEvents
    /\ events' = events + 1
    /\ EnterExecution(new, kind, n_issues)

\* run_single_cycle: diagnose (the Issues are the input), decide, and
\* enter the execution cycle
RunSingleCycle ==
    /\ \E issues \in Diagnoses :
          StartExecution(recommend_actions(issues, TRUE, now), "single", Len(issues))
    /\ cycle_count' = cycle_count + 1
    /\ UNCHANGED <<engine_vars, loop_vars, side_vars>>
    /\ UNCHANGED <<now, dry_run, requests, pending_requests, queue_file,
                   execution_history, summary, exec_trace, review_log,
                   drain_log, approved_since_drain, log_writable>>

\* run_execution_cycle called with Actions the caller built
RunExecutionCycle ==
    /\ \E a \in CallerActions(now) : StartExecution(<<a>>, "execution", 0)
    /\ UNCHANGED <<engine_vars, loop_vars, side_vars>>
    /\ UNCHANGED <<now, dry_run, requests, pending_requests, queue_file,
                   execution_history, cycle_count, summary, exec_trace,
                   review_log, drain_log, approved_since_drain, log_writable>>

NewReviewLog(cycle_no) ==
    [submitted_in |-> cycle_no, approved_in |-> 0, approve_true |-> FALSE,
     reject_true |-> FALSE, found_expired |-> FALSE, drains_at_expiry |-> 0,
     only_reads |-> FALSE]

\* ApprovalManager.submit_for_approval on the Action object i of the heap
\* acts
submit_for_approval(i, acts, io) ==
    LET request == ApprovalRequest(i, now)
    IN  /\ requests' = Append(requests, request)
        /\ pending_requests' = Append(pending_requests, Len(requests) + 1)
        /\ queue_file' = save_request(queue_file, request, acts, io)
        /\ last_call' = Call("submit_for_approval", Len(requests) + 1, FALSE, TRUE, <<>>)
        /\ review_log' = Append(review_log, NewReviewLog(cycle.no))

\* ApprovalManager.get_approved_actions
get_approved_actions ==
    /\ pending_requests' = DrainedList
    /\ last_call' = Call("get_approved_actions", 0, FALSE, TRUE, ApprovedActions)
    /\ drain_log' = Append(drain_log,
            [ret |-> ApprovedActions,
             held_approved |-> {r \in Range(pending_requests) : requests[r].status = "approved"},
             approved_since |-> approved_since_drain,
             cycle |-> cycle.no])
    /\ approved_since_drain' = FALSE

\* "for action in needs_approval: submit_for_approval(action)", one
\* iteration
SubmitForApproval ==
    /\ pc = "submit"
    /\ \E io \in IOOutcomes :
          submit_for_approval(cycle.needs_approval[cycle.pos + 1], actions, io)
    /\ IF cycle.pos + 1 = Len(cycle.needs_approval)
       THEN /\ pc' = AfterSubmit(cycle.auto_execute)
            /\ cycle' = [cycle EXCEPT !.pos = 0]
       ELSE /\ pc' = pc
            /\ cycle' = [cycle EXCEPT !.pos = @ + 1]
    /\ UNCHANGED <<engine_vars, loop_vars, side_vars>>
    /\ UNCHANGED <<now, dry_run, actions, execution_history, cycle_count, summary,
                   exec_trace, drain_log, approved_since_drain, events, log_writable>>

\* "for action in auto_execute: result = self.executor.execute(action)",
\* one iteration
ExecuteAuto ==
    /\ pc = "auto"
    /\ LET i == cycle.auto_execute[cycle.pos + 1]
       IN  \E outcome \in Outcomes(actions[i]) :
              /\ execute(i, outcome, "auto")
              /\ IF cycle.pos + 1 = Len(cycle.auto_execute)
                 THEN /\ pc' = "drain"
                      /\ cycle' = [cycle EXCEPT !.pos = 0,
                                     !.auto_results = Append(@, ResultEntry(actions[i], outcome))]
                 ELSE /\ pc' = pc
                      /\ cycle' = [cycle EXCEPT !.pos = @ + 1,
                                     !.auto_results = Append(@, ResultEntry(actions[i], outcome))]
    /\ last_call' = NoCall
    /\ UNCHANGED <<engine_vars, loop_vars, side_vars>>
    /\ UNCHANGED <<now, dry_run, requests, pending_requests, queue_file, cycle_count,
                   summary, review_log, drain_log, approved_since_drain, events, log_writable>>

\* "approved_actions = self.approval_manager.get_approved_actions()"
GetApprovedActions ==
    /\ pc = "drain"
    /\ cycle' = [cycle EXCEPT !.approved_actions = ApprovedActions]
    /\ get_approved_actions
    /\ pc' = IF ApprovedActions /= <<>> THEN "approved" ELSE "summary"
    /\ UNCHANGED <<engine_vars, loop_vars, side_vars>>
    /\ UNCHANGED <<now, dry_run, actions, requests, queue_file, execution_history,
                   cycle_count, summary, exec_trace, review_log, events, log_writable>>

\* "for action in approved_actions: result = self.executor.execute(action)",
\* one iteration
ExecuteApproved ==
    /\ pc = "approved"
    /\ LET i == cycle.approved_actions[cycle.pos + 1]
       IN  \E outcome \in Outcomes(actions[i]) :
              /\ execute(i, outcome, "approved")
              /\ IF cycle.pos + 1 = Len(cycle.approved_actions)
                 THEN /\ pc' = "summary"
                      /\ cycle' = [cycle EXCEPT !.pos = 0,
                                     !.approved_results = Append(@, ResultEntry(actions[i], outcome))]
                 ELSE /\ pc' = pc
                      /\ cycle' = [cycle EXCEPT !.pos = @ + 1,
                                     !.approved_results = Append(@, ResultEntry(actions[i], outcome))]
    /\ last_call' = NoCall
    /\ UNCHANGED <<engine_vars, loop_vars, side_vars>>
    /\ UNCHANGED <<now, dry_run, requests, pending_requests, queue_file, cycle_count,
                   summary, review_log, drain_log, approved_since_drain, events, log_writable>>

\* Variant of the summary that counts only the Actions executed without
\* review in total_executed.
CycleSummaryAutoOnly ==
    [kind |-> cycle.kind, cycle_number |-> cycle_count,
     issues_detected |-> cycle.n_issues,
     actions_recommended |-> Len(cycle.actions),
     auto_executed |-> Len(cycle.auto_results),
     submitted_for_approval |-> Len(cycle.needs_approval),
     approved_executed |-> Len(cycle.approved_results),
     total_executed |-> Len(cycle.auto_results)]

\* the summary run_execution_cycle / run_single_cycle returns
CycleSummary ==
    [kind |-> cycle.kind, cycle_number |-> cycle_count,
     issues_detected |-> cycle.n_issues,
     actions_recommended |-> Len(cycle.actions),
     auto_executed |-> Len(cycle.auto_results),
     submitted_for_approval |-> Len(cycle.needs_approval),
     approved_executed |-> Len(cycle.approved_results),
     total_executed |-> Len(cycle.auto_results) + Len(cycle.approved_results)]

CycleReturn ==
    /\ pc = "summary"
    /\ summary' = CycleSummary
    /\ cycle' = IdleCycle(cycle.no)
    /\ pc' = "idle"
    /\ last_call' = NoCall
    /\ UNCHANGED <<engine_vars, loop_vars, side_vars>>
    /\ UNCHANGED <<now, dry_run, actions, requests, pending_requests, queue_file,
                   execution_history, cycle_count, exec_trace, review_log,
                   drain_log, approved_since_drain, events, log_writable>>

(***************************************************************************)
(* The ApprovalManager interface, called between cycles.                   *)
(***************************************************************************)
\* submit_for_approval called with an Action the caller built
CallSubmitForApproval ==
    /\ pc = "idle"
    /\ events < MaxEvents
    /\ \E a \in SubmittedActions(now), io \in IOOutcomes :
          /\ actions' = Append(actions, a)
          /\ submit_for_approval(Len(actions) + 1, actions', io)
    /\ events' = events + 1
    /\ UNCHANGED <<engine_vars, loop_vars, side_vars>>
    /\ UNCHANGED <<now, dry_run, execution_history, cycle_count, pc, cycle, summary,
                   exec_trace, drain_log, approved_since_drain, log_writable>>

\* get_approved_actions called directly
CallGetApprovedActions ==
    /\ pc = "idle"
    /\ events < MaxEvents
    /\ get_approved_actions
    /\ events' = events + 1
    /\ UNCHANGED <<engine_vars, loop_vars, side_vars>>
    /\ UNCHANGED <<now, dry_run, actions, requests, queue_file, execution_history,
                   cycle_count, pc, cycle, summary, exec_trace, review_log,
                   log_writable>>

RequestIds == {requests[r].request_id : r \in 1..Len(requests)} \cup {UnknownId}

\* a call that is not a read has come between earlier approvals and
\* the next drain
Disturb(log) == [r \in 1..Len(log) |-> [log[r] EXCEPT !.only_reads = FALSE]]

\* "sum(1 for r in self.pending_requests if r.status == status)"
CountStatus(status) ==
    Cardinality({i \in 1..Len(pending_requests) : requests[pending_requests[i]].status = status})

\* "sum(1 for r in self.pending_requests if r.is_expired())"
CountExpired ==
    Cardinality({i \in 1..Len(pending_requests) : is_expired(requests[pending_requests[i]], now)})

ApproveRequest ==
    /\ pc = "idle"
    /\ events < MaxEvents
    /\ \E request_id \in RequestIds, review \in Reviews, io \in IOOutcomes :
          LET r == FindRequest(request_id)
              reviewer == review[1]
              comment == review[2]
          IN  IF r = 0
              THEN /\ UNCHANGED <<requests, queue_file, approved_since_drain>>
                   /\ review_log' = Disturb(review_log)
                   /\ last_call' = Call("approve_request", 0, FALSE, FALSE, <<>>)
              ELSE IF is_expired(requests[r], now)
              THEN /\ requests' = [requests EXCEPT ![r] = MarkExpired(@)]
                   /\ UNCHANGED <<queue_file, approved_since_drain>>
                   /\ review_log' = [Disturb(review_log) EXCEPT
                                        ![r].found_expired = TRUE,
                                        ![r].drains_at_expiry = Len(drain_log)]
                   /\ last_call' = Call("approve_request", r, FALSE, FALSE, <<>>)
              ELSE /\ requests' = [requests EXCEPT ![r] = approve(@, reviewer, comment, now)]
                   /\ queue_file' = save_request(queue_file, requests'[r], actions, io)
                        /\ approved_since_drain' = TRUE
                   /\ review_log' = [Disturb(review_log) EXCEPT
                                        ![r].approve_true = TRUE,
                                        ![r].approved_in = cycle.no,
                                        ![r].only_reads = TRUE]
                   /\ last_call' = Call("approve_request", r, FALSE, TRUE, <<>>)
    /\ events' = events + 1
    /\ UNCHANGED <<engine_vars, loop_vars, side_vars>>
    /\ UNCHANGED <<now, dry_run, actions, pending_requests, execution_history,
                   cycle_count, pc, cycle, summary, exec_trace, drain_log,
                   log_writable>>

\* Variant of reject_request with the expiry test of approve_request.
RejectRequestUnlessExpired ==
    /\ pc = "idle"
    /\ events < MaxEvents
    /\ \E request_id \in RequestIds, review \in Reviews, io \in IOOutcomes :
          LET r == FindRequest(request_id)
          IN  IF r = 0
              THEN /\ UNCHANGED <<requests, queue_file>>
                   /\ review_log' = Disturb(review_log)
                   /\ last_call' = Call("reject_request", 0, FALSE, FALSE, <<>>)
              ELSE IF is_expired(requests[r], now)
              THEN /\ requests' = [requests EXCEPT ![r] = MarkExpired(@)]
                   /\ UNCHANGED queue_file
                   /\ review_log' = Disturb(review_log)
                   /\ last_call' = Call("reject_request", r, FALSE, FALSE, <<>>)
              ELSE /\ requests' = [requests EXCEPT ![r] = reject(@, review[1], review[2], now)]
                   /\ queue_file' = save_request(queue_file, requests'[r], actions, io)
                   /\ review_log' = [Disturb(review_log) EXCEPT ![r].reject_true = TRUE]
                   /\ last_call' = Call("reject_request", r, FALSE, TRUE, <<>>)
    /\ events' = events + 1
    /\ UNCHANGED <<engine_vars, loop_vars, side_vars>>
    /\ UNCHANGED <<now, dry_run, actions, pending_requests, execution_history,
                   cycle_count, pc, cycle, summary, exec_trace, drain_log,
                   approved_since_drain, log_writable>>

RejectRequest ==
    /\ pc = "idle"
    /\ events < MaxEvents
    /\ \E request_id \in RequestIds, review \in Reviews, io \in IOOutcomes :
          LET r == FindRequest(request_id)
              reviewer == review[1]
              comment == review[2]
          IN  IF r = 0
              THEN /\ UNCHANGED <<requests, queue_file>>
                   /\ review_log' = Disturb(review_log)
                   /\ last_call' = Call("reject_request", 0, FALSE, FALSE, <<>>)
              ELSE /\ requests' = [requests EXCEPT ![r] = reject(@, reviewer, comment, now)]
                   /\ queue_file' = save_request(queue_file, requests'[r], actions, io)
                        /\ review_log' = [Disturb(review_log) EXCEPT ![r].reject_true = TRUE]
                   /\ last_call' = Call("reject_request", r, FALSE, TRUE, <<>>)
    /\ events' = events + 1
    /\ UNCHANGED <<engine_vars, loop_vars, side_vars>>
    /\ UNCHANGED <<now, dry_run, actions, pending_requests, execution_history,
                   cycle_count, pc, cycle, summary, exec_trace, drain_log,
                   approved_since_drain, log_writable>>

GetPendingRequests ==
    /\ pc = "idle"
    /\ \E include_expired \in BOOLEAN :
          /\ include_expired \/ events < MaxEvents
          /\ events' = IF include_expired THEN events ELSE events + 1
          /\ pending_requests' = PurgedList(include_expired)
          /\ last_call' = Call("get_pending_requests", 0, include_expired, TRUE,
                               SelectSeq(PurgedList(include_expired),
                                         LAMBDA r : requests[r].status = "pending"))
    /\ UNCHANGED <<engine_vars, loop_vars, side_vars>>
    /\ UNCHANGED <<now, dry_run, actions, requests, queue_file, execution_history,
                   cycle_count, pc, cycle, summary, exec_trace, review_log, drain_log,
                   approved_since_drain, log_writable>>

GetRequestById ==
    /\ pc = "idle"
    /\ \E request_id \in RequestIds :
          last_call' = Call("get_request_by_id", FindRequest(request_id), FALSE,
                            FindRequest(request_id) /= 0, <<>>)
    /\ UNCHANGED <<engine_vars, loop_vars, side_vars>>
    /\ UNCHANGED <<now, dry_run, actions, requests, pending_requests, queue_file,
                   execution_history, cycle_count, pc, cycle, summary, exec_trace,
                   review_log, drain_log, approved_since_drain, events, log_writable>>

GetStatistics ==
    /\ pc = "idle"
    /\ last_call' = Call("get_statistics", 0, FALSE, TRUE,
                         <<Len(pending_requests),
                           CountStatus("pending"),
                           CountStatus("approved"),
                           CountStatus("rejected"),
                           CountExpired>>)
    /\ UNCHANGED <<engine_vars, loop_vars, side_vars>>
    /\ UNCHANGED <<now, dry_run, actions, requests, pending_requests, queue_file,
                   execution_history, cycle_count, pc, cycle, summary, exec_trace,
                   review_log, drain_log, approved_since_drain, events, log_writable>>

CleanupOldRequests ==
    /\ pc = "idle"
    /\ events < MaxEvents
    /\ \E days \in CleanupDays :
          /\ pending_requests' = CleanedList(days)
          /\ last_call' = Call("cleanup_old_requests", 0, FALSE, TRUE,
                               <<Len(pending_requests) - Len(CleanedList(days))>>)
    /\ review_log' = Disturb(review_log)
    /\ events' = events + 1
    /\ UNCHANGED <<engine_vars, loop_vars, side_vars>>
    /\ UNCHANGED <<now, dry_run, actions, requests, queue_file, execution_history,
                   cycle_count, pc, cycle, summary, exec_trace, drain_log,
                   approved_since_drain, log_writable>>

(***************************************************************************)
(* Specification.                                                          *)
(***************************************************************************)
Next ==
    \/ Tick
    \/ RunSingleCycle
    \/ RunExecutionCycle
    \/ SubmitForApproval
    \/ ExecuteAuto
    \/ GetApprovedActions
    \/ ExecuteApproved
    \/ CycleReturn
    \/ ApproveRequest
    \/ RejectRequest
    \/ GetPendingRequests
    \/ GetRequestById
    \/ GetStatistics

\* the agent with its reviewer, the queue file writable
InitAgent == Init /\ log_writable

Spec == InitAgent /\ [][Next]_vars

\* the ApprovalManager of a constructed agent, driven through its interface
NextManager ==
    \/ Tick
    \/ CallSubmitForApproval
    \/ CallGetApprovedActions
    \/ ApproveRequest
    \/ RejectRequest
    \/ GetPendingRequests
    \/ GetRequestById
    \/ GetStatistics
    \/ CleanupOldRequests

InitManager == Init /\ ~dry_run

SpecManager == InitManager /\ [][NextManager]_vars

(***************************************************************************)
(* Diagnosis Engine.                                                       *)
(***************************************************************************)
Severities == {"low", "medium", "high", "critical"}

\* the default thresholds of check_performance_degradation, in percent,
\* in the order of the dict
metric_thresholds ==
    <<[metric |-> "f1_score", threshold |-> 75],
      [metric |-> "accuracy", threshold |-> 75],
      [metric |-> "precision", threshold |-> 70],
      [metric |-> "recall", threshold |-> 70]>>

\* stats.get("current", 0.0) of a degraded metric, in percent
PerfCurrents == {0, 60, 65}

\* what the PerformanceMonitor answers for one metric: not degraded, an
\* exception out of check_performance_degradation or calculate_statistics,
\* or degraded with a current value
PerfAnswers ==
    {[outcome |-> "ok", current |-> 0], [outcome |-> "raise", current |-> 0]}
    \cup {[outcome |-> "degraded", current |-> c] : c \in PerfCurrents}

\* the loop of check_performance_degradation over the metrics from the
\* k-th on; an exception ends the loop and keeps the Issues appended so far
RECURSIVE check_performance_loop(_, _, _)
check_performance_loop(answers, k, found) ==
    IF k > Len(metric_thresholds)
    THEN [issues |-> found, raised |-> FALSE]
    ELSE IF answers[k].outcome = "raise"
    THEN [issues |-> found, raised |-> TRUE]
    ELSE IF answers[k].outcome = "ok"
    THEN check_performance_loop(answers, k + 1, found)
    ELSE check_performance_loop(answers, k + 1,
            Append(found,
                   Issue("performance_degradation",
                         IF answers[k].current < metric_thresholds[k].threshold - 10
                         THEN "critical" ELSE "high",
                         0, 0)))

check_performance_degradation(answers) == check_performance_loop(answers, 1, <<>>)

\* what the DriftDetector answers: an exception (also when it could not be
\* initialized), no drift, or a drift summary with or without the key
\* n_drifted_features
DriftAnswers ==
    {[outcome |-> o, n_drifted_features |-> 0] : o \in {"raise", "no_drift", "drift_without_count"}}
    \cup {[outcome |-> "drift", n_drifted_features |-> n] : n \in 0..MaxDrifted}

drift_severity(n_drifted) ==
    IF n_drifted >= 5 THEN "high" ELSE IF n_drifted >= 3 THEN "medium" ELSE "low"

check_data_drift(answer) ==
    IF answer.outcome = "raise"
    THEN [issues |-> <<>>, raised |-> TRUE]
    ELSE IF answer.outcome = "no_drift"
    THEN [issues |-> <<>>, raised |-> FALSE]
    ELSE LET n_drifted == IF answer.outcome = "drift" THEN answer.n_drifted_features ELSE 0
         IN  [issues |-> <<Issue("data_drift", drift_severity(n_drifted), n_drifted, 0)>>,
              raised |-> FALSE]

\* what pandas answers in check_data_quality: the missing-value count and
\* the duplicate count each raise or give a number under or over the limit
QualityAnswers ==
    [missing : {"raise", "none", "some"}, duplicates : {"raise", "few", "many"}]

check_data_quality(answer) ==
    IF answer.missing = "raise"
    THEN [issues |-> <<>>, raised |-> TRUE]
    ELSE LET high_missing == IF answer.missing = "some"
                             THEN <<Issue("data_quality", "medium", 0, 0)>>
                             ELSE <<>>
         IN  IF answer.duplicates = "raise"
             THEN [issues |-> high_missing, raised |-> TRUE]
             ELSE [issues |-> high_missing \o
                              (IF answer.duplicates = "many"
                               THEN <<Issue("data_quality", "low", 0, 0)>>
                               ELSE <<>>),
                   raised |-> FALSE]

\* ratios in percent: min(counts) / max(counts) of two predicted classes,
\* and the share of probabilities strictly between 0.4 and 0.6
ClassRatios == {2, 5}
LowConfRatios == {30, 35, 50}

\* what numpy and the probabilities answer in check_prediction_anomalies
AnomalyAnswers ==
    {[classes |-> c, ratio |-> r, probabilities |-> p, low_conf_ratio |-> l] :
        c \in {"raise", "one", "two"}, r \in ClassRatios,
        p \in {"none", "raise", "given"}, l \in LowConfRatios}

check_prediction_anomalies(answer) ==
    IF answer.classes = "raise"
    THEN [issues |-> <<>>, raised |-> TRUE]
    ELSE LET imbalance == IF answer.classes = "two" /\ answer.ratio < 5
                          THEN <<Issue("prediction_anomaly", "medium", 0, answer.ratio)>>
                          ELSE <<>>
         IN  IF answer.probabilities = "none"
             THEN [issues |-> imbalance, raised |-> FALSE]
             ELSE IF answer.probabilities = "raise"
             THEN [issues |-> imbalance, raised |-> TRUE]
             ELSE [issues |-> imbalance \o
                              (IF answer.low_conf_ratio > 30
                               THEN <<Issue("low_confidence", "medium", 0, answer.low_conf_ratio)>>
                               ELSE <<>>),
                   raised |-> FALSE]

\* run_full_diagnosis: "all_issues.extend(...)" after one check returned
Extend(check, result, next_pc) ==
    /\ issue_list' = issue_list \o result.issues
    /\ check_log' = Append(check_log,
                           [check |-> check, raised |-> result.raised,
                            n_issues |-> Len(result.issues)])
    /\ eng_pc' = next_pc
    /\ UNCHANGED <<current_data, predictions, approve_low_risk,
                   decided_actions, recommended_actions>>
    /\ UNCHANGED <<agent_vars, loop_vars, side_vars>>

AfterData == IF predictions /= None THEN "anomaly" ELSE "decide"

CheckPerformanceDegradation ==
    /\ eng_pc = "perf"
    /\ \E answers \in [1..Len(metric_thresholds) -> PerfAnswers] :
          Extend("performance", check_performance_degradation(answers),
                 IF current_data /= None THEN "drift" ELSE AfterData)

CheckDataDrift ==
    /\ eng_pc = "drift"
    /\ \E answer \in DriftAnswers :
          Extend("drift", check_data_drift(answer), "quality")

CheckDataQuality ==
    /\ eng_pc = "quality"
    /\ \E answer \in QualityAnswers :
          Extend("quality", check_data_quality(answer), AfterData)

CheckPredictionAnomalies ==
    /\ eng_pc = "anomaly"
    /\ \E answer \in AnomalyAnswers :
          Extend("anomaly", check_prediction_anomalies(answer), "decide")

\* recommend_actions on the Issues diagnosed or handed in by the caller
RecommendActions ==
    /\ eng_pc = "decide"
    /\ decided_actions' =
          Concat([i \in 1..Len(issue_list) |-> decide_action_for_issue(issue_list[i], now)])
    /\ recommended_actions' = recommend_actions(issue_list, approve_low_risk, now)
    /\ eng_pc' = "done"
    /\ UNCHANGED <<current_data, predictions, issue_list, check_log, approve_low_risk>>
    /\ UNCHANGED <<agent_vars, loop_vars, side_vars>>

\* Issues a caller can hand to recommend_actions
IssueSpace ==
    {Issue("data_drift", s, n, 0) : s \in Severities, n \in 0..MaxDrifted}
    \cup {Issue("performance_degradation", s, 0, 0) : s \in Severities}
    \cup {Issue("prediction_anomaly", "medium", 0, r) : r \in ClassRatios}
    \cup {Issue("low_confidence", "medium", 0, r) : r \in LowConfRatios \cup {40}}
    \cup {Issue("data_quality", s, 0, 0) : s \in {"low", "medium"}}
    \cup {Issue("model_staleness", "low", 0, 0)}

IssueLists == UNION {[1..n -> IssueSpace] : n \in 0..MaxIssues}

\* either run_full_diagnosis is entered with its arguments, or
\* recommend_actions is called with a list of Issues
InitDecision ==
    /\ AgentConstructed /\ ~dry_run /\ log_writable
    /\ LoopIdle
    /\ SideIdle
    /\ check_log = <<>>
    /\ decided_actions = <<>>
    /\ recommended_actions = <<>>
    /\ \/ /\ eng_pc = "perf"
          /\ current_data \in {None, "data"}
          /\ predictions \in {None, "predictions"}
          /\ issue_list = <<>>
          /\ approve_low_risk = TRUE
       \/ /\ eng_pc = "decide"
          /\ current_data = None
          /\ predictions = None
          /\ issue_list \in IssueLists
          /\ approve_low_risk \in BOOLEAN

NextDecision ==
    \/ CheckPerformanceDegradation
    \/ CheckDataDrift
    \/ CheckDataQuality
    \/ CheckPredictionAnomalies
    \/ RecommendActions

SpecDecision == InitDecision /\ [][NextDecision]_vars

(***************************************************************************)
(* Cycles with several Actions of each kind.                               *)
(***************************************************************************)
\* the first diagnosis finds two Issues that each lead to a send_alert and
\* a retrain_model, the later ones find nothing
BusyDiagnoses ==
    IF cycle_count = 0
    THEN {<<Issue("low_confidence", "medium", 0, 50), Issue("low_confidence", "medium", 0, 50)>>}
    ELSE {<<>>}

\* run_single_cycle on such a diagnosis; cycles and the other calls from
\* outside share the budget of events
RunBusyCycle ==
    /\ cycle_count < MaxCycles
    /\ events + cycle_count <= MaxEvents
    /\ \E issues \in BusyDiagnoses :
          /\ EnterExecution(recommend_actions(issues, TRUE, now), "single", Len(issues))
    /\ cycle_count' = cycle_count + 1
    /\ UNCHANGED <<engine_vars, loop_vars, side_vars>>
    /\ UNCHANGED <<now, dry_run, requests, pending_requests, queue_file,
                   execution_history, summary, exec_trace, review_log,
                   drain_log, approved_since_drain, events, log_writable>>

NextBusy ==
    \/ Tick
    \/ RunBusyCycle
    \/ SubmitForApproval
    \/ ExecuteAuto
    \/ GetApprovedActions
    \/ ExecuteApproved
    \/ CycleReturn
    \/ ApproveRequest

SpecBusy == InitAgent /\ [][NextBusy]_vars

(***************************************************************************)
(* Continuous mode: start() and stop().                                    *)
(***************************************************************************)
\* what start() leaves alone: everything but cycle_count
loop_frame == <<now, dry_run, actions, requests, pending_requests, queue_file,
                execution_history, pc, cycle, summary, last_call, exec_trace,
                review_log, drain_log, approved_since_drain, events, log_writable>>

LoopEvent(event, kind, at) ==
    [event |-> event, kind |-> kind, at |-> at, cycle |-> cycle_count]

\* what can be raised inside the try block of start(): an interrupt of
\* the user, or an error
Raised == {"KeyboardInterrupt", "Exception"}

\* Variant of the except clauses of start() with the second clause only.
CaughtErrorsOnly == {"Exception"}

\* the except clauses of start()
Caught == {"KeyboardInterrupt", "Exception"}

\* where the thread is between "try:" and the except clauses
InsideTry == {"test", "diagnose", "decide", "execute", "sleep"}

\* "self.running = True"
Start ==
    /\ loop_pc = "new"
    /\ running' = TRUE
    /\ loop_pc' = "test"
    /\ UNCHANGED <<loop_log, cycle_count, loop_frame, engine_vars, side_vars>>

\* "while self.running:" and the entry into run_single_cycle
LoopTest ==
    /\ loop_pc = "test"
    /\ IF running
       THEN /\ cycle_count < MaxCycles
            /\ loop_pc' = "diagnose"
            /\ loop_log' = Append(loop_log, LoopEvent("begin", None, "test"))
       ELSE /\ loop_pc' = "returned"
            /\ loop_log' = Append(loop_log, LoopEvent("return", None, "test"))
    /\ UNCHANGED <<running, cycle_count, loop_frame, engine_vars, side_vars>>

\* run_diagnosis_cycle returns: "self.cycle_count += 1"
LoopDiagnose ==
    /\ loop_pc = "diagnose"
    /\ cycle_count' = cycle_count + 1
    /\ loop_pc' = "decide"
    /\ UNCHANGED <<running, loop_log, loop_frame, engine_vars, side_vars>>

\* run_decision_cycle returns
LoopDecide ==
    /\ loop_pc = "decide"
    /\ loop_pc' = "execute"
    /\ UNCHANGED <<running, loop_log, cycle_count, loop_frame, engine_vars, side_vars>>

\* run_execution_cycle returns and run_single_cycle returns its summary
LoopExecute ==
    /\ loop_pc = "execute"
    /\ loop_pc' = "sleep"
    /\ loop_log' = Append(loop_log, LoopEvent("end", None, "execute"))
    /\ UNCHANGED <<running, cycle_count, loop_frame, engine_vars, side_vars>>

\* "time.sleep(self.check_interval)" returns
LoopSleep ==
    /\ loop_pc = "sleep"
    /\ loop_pc' = "test"
    /\ UNCHANGED <<running, loop_log, cycle_count, loop_frame, engine_vars, side_vars>>

\* an exception leaves the try block: run_single_cycle lets it escape, or
\* the user interrupts the cycle or the sleep
LoopRaise ==
    /\ loop_pc \in InsideTry
    /\ \E kind \in Raised :
          /\ loop_log' = Append(loop_log, LoopEvent("raise", kind, loop_pc))
          /\ loop_pc' = IF kind \in Caught THEN "handler" ELSE "propagated"
    /\ UNCHANGED <<running, cycle_count, loop_frame, engine_vars, side_vars>>

\* stop(): "self.running = False", then the statistics are logged
stop(at) ==
    /\ running' = FALSE
    /\ loop_log' = Append(loop_log, LoopEvent("stop", None, at))

\* the except clause calls stop() and start() returns
LoopHandler ==
    /\ loop_pc = "handler"
    /\ stop("handler")
    /\ loop_pc' = "returned"
    /\ UNCHANGED <<cycle_count, loop_frame, engine_vars, side_vars>>

\* stop() called by another thread while the loop runs
ExternalStop ==
    /\ loop_pc \in InsideTry
    /\ running
    /\ stop(loop_pc)
    /\ UNCHANGED <<loop_pc, cycle_count, loop_frame, engine_vars, side_vars>>

NextLoop ==
    \/ Start
    \/ LoopTest
    \/ LoopDiagnose
    \/ LoopDecide
    \/ LoopExecute
    \/ LoopSleep
    \/ LoopRaise
    \/ LoopHandler
    \/ ExternalStop

SpecLoop == InitAgent /\ [][NextLoop]_vars

(***************************************************************************)
(* The production model directory and the rollback handler.                *)
(***************************************************************************)
\* A file of the directory is [name, content, mtime]; the name is
\* [base, backups], that is "backup_" repeated backups times before
\* base.joblib.  Every write gets a later modification time than the
\* writes before it, and the directory can be read and written.
ModelBases == {"model_a", "model_b"}

File(name, content, mtime) == [name |-> name, content |-> content, mtime |-> mtime]

\* the file of the directory with this name
FileNamed(dir, name) == CHOOSE f \in dir : f.name = name

\* "production_dir / f'backup_{current_model.name}'"
BackupName(name) == [name EXCEPT !.backups = @ + 1]

\* sorted(production_dir.glob("*.joblib"), key=mtime, reverse=True), as
\* the sequence of names
RECURSIVE SortedByMtime(_)
SortedByMtime(dir) ==
    IF dir = {} THEN <<>>
    ELSE LET newest == CHOOSE f \in dir : \A g \in dir : g.mtime <= f.mtime
         IN  <<newest.name>> \o SortedByMtime(dir \ {newest})

\* shutil.copy(src, dst): dst is created or overwritten with the content
\* of src and gets the modification time t
Copy(dir, src, dst, t) ==
    {f \in dir : f.name /= dst} \cup {File(dst, FileNamed(dir, src).content, t)}

\* the path _execute_rollback copies the current model to
backup_path(dir, name) == BackupName(name)

\* the directory _execute_rollback leaves, with at least two files
RolledBack(dir, t) ==
    LET model_files == SortedByMtime(dir)
        current_model == model_files[1]
        previous_model == model_files[2]
        backed_up == Copy(dir, current_model, backup_path(dir, current_model), t + 1)
    IN  Copy(backed_up, previous_model, current_model, t + 2)

\* what the handler of an Action does to the directory and returns, past
\* the dry-run return and the lookup; only _execute_rollback touches the
\* directory
HandlerRuns(a, outcome) ==
    IF a.action_type /= "rollback_model"
    THEN [outcome |-> outcome, dir |-> model_dir, clock |-> write_clock, error |-> None]
    ELSE IF Cardinality(model_dir) < 2
    THEN [outcome |-> "failure", dir |-> model_dir, clock |-> write_clock,
          error |-> "Insufficient model versions"]
    ELSE [outcome |-> "success", dir |-> RolledBack(model_dir, write_clock),
          clock |-> write_clock + 2, error |-> None]

\* Actions handed to the Executor
DirectActions(t) ==
    {Action("rollback_model", "high", "performance_degradation",
            "performance_degradation", TRUE, t),
     Action("send_alert", "low", "high", "performance_degradation", FALSE, t)}

\* an Action is built
BuildAction ==
    /\ Len(actions) < MaxExecs
    /\ \E a \in DirectActions(now) : actions' = Append(actions, a)
    /\ UNCHANGED <<now, dry_run, requests, pending_requests, queue_file,
                   execution_history, cycle_count, pc, cycle, summary, last_call,
                   exec_trace, review_log, drain_log, approved_since_drain, events,
                   log_writable>>
    /\ UNCHANGED <<engine_vars, loop_vars, dir_vars, mgr_vars>>

\* ActionExecutor.execute on an Action object, the handler acting on the
\* directory
ExecuteOnDirectory ==
    /\ Len(exec_trace) < MaxExecs
    /\ \E i \in 1..Len(actions) : \E chosen \in Outcomes(actions[i]) :
          LET ran == IF chosen = "not_invoked"
                     THEN [outcome |-> chosen, dir |-> model_dir,
                           clock |-> write_clock, error |-> None]
                     ELSE HandlerRuns(actions[i], chosen)
          IN  /\ ran.outcome = chosen
              /\ execute(i, chosen, "direct")
              /\ model_dir' = ran.dir
              /\ write_clock' = ran.clock
              /\ dir_log' = Append(dir_log,
                     [before |-> model_dir, after |-> ran.dir,
                      model_files |-> SortedByMtime(model_dir), error |-> ran.error])
    /\ UNCHANGED <<now, dry_run, requests, pending_requests, queue_file,
                   cycle_count, pc, cycle, summary, last_call, review_log,
                   drain_log, approved_since_drain, events, log_writable>>
    /\ UNCHANGED <<engine_vars, loop_vars, mgr_vars>>

\* the directories the agent can find: up to one file per model name,
\* written at different times
InitialDirs ==
    {{}} \cup {{File([base |-> b, backups |-> 0], 1, 1)} : b \in ModelBases}
    \cup UNION {{{File([base |-> b, backups |-> 0], 1, 1),
                    File([base |-> c, backups |-> 0], 2, 2)} : c \in ModelBases \ {b}} :
                    b \in ModelBases}

InitRollback ==
    /\ AgentConstructed /\ log_writable
    /\ EngineIdle /\ LoopIdle /\ MgrIdle
    /\ model_dir \in InitialDirs
    /\ write_clock = Cardinality(model_dir)
    /\ dir_log = <<>>

NextRollback ==
    \/ BuildAction
    \/ ExecuteOnDirectory

SpecRollback == InitRollback /\ [][NextRollback]_vars

(***************************************************************************)
(* The process starts again: a new ApprovalManager over the same log.      *)
(***************************************************************************)
\* requests of the list that still await a review
AwaitingReview ==
    {r \in Range(pending_requests) :
        requests[r].status = "pending" /\ ~is_expired(requests[r], now)}

\* lines of the file written for the request object r
LinesOf(file, r) ==
    {n \in 1..Len(file) :
        /\ file[n].request_id = requests[r].request_id
        /\ file[n].created_at = requests[r].created_at}

\* Variant of _load_queue that rebuilds every request whose last line in
\* the file has status pending.
load_queue_rebuilding(file) ==
    SelectSeq([r \in 1..Len(requests) |-> r],
              LAMBDA r : /\ LinesOf(file, r) /= {}
                         /\ \E n \in LinesOf(file, r) :
                               /\ \A m \in LinesOf(file, r) : m <= n
                               /\ file[n].status = "pending")

\* _load_queue: every line is parsed, a line with status pending is
\* logged, and no request is built: the list stays as __init__ made it
load_queue(file) == <<>>

\* ApprovalManager.__init__ in a new process, over the file the old
\* process wrote; the request objects of the old process are out of reach
Restart ==
    /\ pc = "idle"
    /\ events < MaxEvents
    /\ pending_requests' = load_queue(queue_file)
    /\ restart_log' = Append(restart_log, [at |-> now, awaiting |-> AwaitingReview])
    /\ last_call' = Call("__init__", 0, FALSE, TRUE, load_queue(queue_file))
    /\ review_log' = Disturb(review_log)
    /\ approved_since_drain' = FALSE
    /\ events' = events + 1
    /\ UNCHANGED <<engine_vars, loop_vars, dir_vars, drain_pc, drain_ret, removal_log>>
    /\ UNCHANGED <<now, dry_run, actions, requests, queue_file, execution_history,
                   cycle_count, pc, cycle, summary, exec_trace, drain_log,
                   log_writable>>

NextRestart ==
    \/ Tick
    \/ CallSubmitForApproval
    \/ ApproveRequest
    \/ RejectRequest
    \/ GetPendingRequests
    \/ Restart

SpecRestart == InitManager /\ [][NextRestart]_vars

(***************************************************************************)
(* get_approved_actions with a reviewer on another thread.                 *)
(***************************************************************************)
\* get_approved_actions makes two passes over self.pending_requests with
\* no lock: the loop that collects the Actions of the approved requests,
\* then the list comprehension that drops the approved and the rejected
\* requests.  A reviewer thread can run between the two.

\* the collection pass: "for request in self.pending_requests: if
\* request.status == 'approved': approved.append(request.action)"
DrainCollect ==
    /\ pc = "idle"
    /\ drain_pc = "idle"
    /\ events < MaxEvents
    /\ drain_ret' = ApprovedActions
    /\ drain_pc' = "collected"
    /\ events' = events + 1
    /\ last_call' = NoCall
    /\ UNCHANGED <<engine_vars, loop_vars, dir_vars, restart_log, removal_log>>
    /\ UNCHANGED <<now, dry_run, actions, requests, pending_requests, queue_file,
                   execution_history, cycle_count, pc, cycle, summary, exec_trace,
                   review_log, drain_log, approved_since_drain, log_writable>>

\* the removal pass and the return: "self.pending_requests = [r for r in
\* self.pending_requests if r.status not in ['approved', 'rejected']]"
DrainRemove ==
    /\ drain_pc = "collected"
    /\ pending_requests' = DrainedList
    /\ removal_log' = Append(removal_log,
            [ret |-> drain_ret,
             removed |-> Range(pending_requests) \ Range(DrainedList),
             removed_approved |-> {r \in Range(pending_requests) :
                                      requests[r].status = "approved"}])
    /\ drain_log' = Append(drain_log,
            [ret |-> drain_ret,
             held_approved |-> {r \in Range(pending_requests) : requests[r].status = "approved"},
             approved_since |-> approved_since_drain,
             cycle |-> cycle.no])
    /\ last_call' = Call("get_approved_actions", 0, FALSE, TRUE, drain_ret)
    /\ approved_since_drain' = FALSE
    /\ drain_pc' = "idle"
    /\ drain_ret' = <<>>
    /\ UNCHANGED <<engine_vars, loop_vars, dir_vars, restart_log>>
    /\ UNCHANGED <<now, dry_run, actions, requests, queue_file, execution_history,
                   cycle_count, pc, cycle, summary, exec_trace, review_log, events,
                   log_writable>>

NextDrain ==
    \/ CallSubmitForApproval
    \/ DrainCollect
    \/ DrainRemove
    \/ ApproveRequest
    \/ RejectRequest

SpecDrain == InitManager /\ [][NextDrain]_vars

(***************************************************************************)
(* Continuous mode with no reviewer.                                       *)
(***************************************************************************)
\* start() runs run_single_cycle and sleeps, again and again, until the
\* user interrupts it; nobody calls the reviewer interface.  loop_pc stays
\* "test" while the thread is inside the while loop, pc follows the cycle.

\* "while self.running: summary = self.run_single_cycle()"
ContinuousCycle ==
    /\ running
    /\ loop_pc = "test"
    /\ RunBusyCycle

\* the user interrupts the sleep between two cycles: the except clause
\* calls stop() and start() returns
Interrupt ==
    /\ running
    /\ loop_pc = "test"
    /\ pc = "idle"
    /\ cycle_count > 0
    /\ stop("sleep")
    /\ loop_pc' = "returned"
    /\ UNCHANGED <<cycle_count, loop_frame, engine_vars, side_vars>>

\* ExecuteApproved is left out: with no reviewer the drain returns an
\* empty list and the loop over approved_actions has no iteration
NextContinuous ==
    \/ Start
    \/ ContinuousCycle
    \/ SubmitForApproval
    \/ ExecuteAuto
    \/ GetApprovedActions
    \/ CycleReturn
    \/ Tick
    \/ Interrupt

\* the thread of start() keeps running and the clock keeps advancing for
\* as long as they can; the run ends when start() has returned
SpecContinuous ==
    InitAgent /\ [][NextContinuous]_vars /\ WF_vars(NextContinuous)

(***************************************************************************)
(* Properties.                                                             *)
(***************************************************************************)
Terminal == {"approved", "rejected", "expired"}

Held == Range(pending_requests)

\* the execute calls made on the Action object a
ExecsOf(a) == {k \in 1..Len(exec_trace) : exec_trace[k].action = a}

\* the execution cycle n has made all its execute calls
CycleOver(n) == cycle.no > n \/ (cycle.no = n /\ pc \in {"summary", "idle"})

\* C1: once a request held by the ApprovalManager is approved, rejected or
\* expired, no call changes its status, reviewed_by, reviewed_at or
\* review_comment again.
C1_TerminalImmutable ==
    [][\A r \in Held :
          requests[r].status \in Terminal =>
              /\ requests'[r].status = requests[r].status
              /\ requests'[r].reviewed_by = requests[r].reviewed_by
              /\ requests'[r].reviewed_at = requests[r].reviewed_at
              /\ requests'[r].review_comment = requests[r].review_comment]_vars

\* C2: an Action submitted in cycle N whose request approve_request approved
\* before the drain of cycle N+1, with only reads of the reviewer interface
\* between the approval and that drain, is executed in cycle N+1 and exactly
\* once overall.
C2_ApprovedRunsNextCycle ==
    \A r \in 1..Len(requests) :
        LET L == review_log[r]
        IN  (/\ L.approve_true
             /\ L.only_reads
             /\ L.approved_in = L.submitted_in
             /\ CycleOver(L.submitted_in + 1))
            => /\ Cardinality(ExecsOf(requests[r].action)) = 1
               /\ \A k \in ExecsOf(requests[r].action) :
                     exec_trace[k].cycle = L.submitted_in + 1

\* C3: execute is called on an Action that requires approval only after
\* approve_request has returned True for the request wrapping it.
C3_ExecutedOnlyIfApproved ==
    \A k \in 1..Len(exec_trace) :
        actions[exec_trace[k].action].requires_approval =>
            \E r \in 1..Len(requests) :
                /\ requests[r].action = exec_trace[k].action
                /\ review_log[r].approve_true

C3_Witness ==
    \E k \in 1..Len(exec_trace) :
        /\ actions[exec_trace[k].action].requires_approval
        /\ exec_trace[k].path = "approved"

\* C4 as stated: after execute returns, action.status is completed or
\* failed in every case.
C4_StatusAlwaysSet ==
    \A k \in 1..Len(exec_trace) :
        /\ exec_trace[k].status_after \in {"completed", "failed"}
        /\ actions[exec_trace[k].action].status \in {"completed", "failed"}

\* C4 amended: outside dry-run mode and for a type of the dispatch table,
\* action.status after execute is completed exactly when the handler
\* returned a successful result and failed when it returned a failure or
\* raised; in dry-run mode and for an unknown type execute leaves
\* action.status as it was.
C4_StatusSetByHandler ==
    \A k \in 1..Len(exec_trace) :
        LET e == exec_trace[k]
            a == actions[e.action]
        IN  /\ a.status = e.status_after
            /\ IF ~dry_run /\ a.action_type \in ActionTypes
               THEN /\ e.outcome \in {"success", "failure", "raise"}
                    /\ a.status = IF e.outcome = "success" THEN "completed" ELSE "failed"
               ELSE a.status = e.status_before

C4_Witness ==
    \E k \in 1..Len(exec_trace) :
        /\ exec_trace[k].outcome = "raise"
        /\ actions[exec_trace[k].action].status = "failed"

\* C5: get_approved_actions returns the Actions of all requests of the
\* list that are approved when it is called; a call that follows another
\* one with no approve_request in between returns the empty list; no Action
\* is returned by two calls.
C5_DrainOnce ==
    /\ \A k \in 1..Len(drain_log) :
          /\ Range(drain_log[k].ret) = {requests[r].action : r \in drain_log[k].held_approved}
          /\ Len(drain_log[k].ret) = Cardinality(drain_log[k].held_approved)
    /\ \A k \in 2..Len(drain_log) :
          ~drain_log[k].approved_since => drain_log[k].ret = <<>>
    /\ \A j, k \in 1..Len(drain_log) :
          j < k => Range(drain_log[j].ret) \cap Range(drain_log[k].ret) = {}

C5_Witness ==
    \E k \in 2..Len(drain_log) :
        /\ drain_log[k - 1].ret /= <<>>
        /\ ~drain_log[k].approved_since
        /\ drain_log[k].ret = <<>>

\* C6: approve_request on a request of the list that is past its expires_at
\* returns False and leaves it expired; such a request is never approved
\* afterwards and no later get_approved_actions call returns its Action.
C6_ExpiredNotApproved ==
    /\ (/\ last_call.op = "approve_request"
        /\ last_call.target /= 0
        /\ now > requests[last_call.target].created_at + ExpiryTicks)
       => /\ ~last_call.ok
          /\ requests[last_call.target].status = "expired"
    /\ \A r \in 1..Len(requests) :
          review_log[r].found_expired =>
              /\ requests[r].status /= "approved"
              /\ \A k \in 1..Len(drain_log) :
                    k > review_log[r].drains_at_expiry =>
                        requests[r].action \notin Range(drain_log[k].ret)

C6_Witness ==
    \E r \in 1..Len(requests) :
        /\ review_log[r].found_expired
        /\ requests[r].status = "expired"
        /\ r \in Held
        /\ Len(drain_log) > review_log[r].drains_at_expiry

\* C7: the default get_pending_requests returns every request that is still
\* pending and not past its expires_at, returns no request that is past its
\* expires_at, and returns only pending requests.
C7_PendingRoundTrip ==
    (last_call.op = "get_pending_requests" /\ ~last_call.flag) =>
        \A r \in 1..Len(requests) :
            LET live == now <= requests[r].created_at + ExpiryTicks
                listed == r \in Range(last_call.list)
            IN  /\ (requests[r].status = "pending" /\ live) => listed
                /\ ~live => ~listed
                /\ listed => requests[r].status = "pending"

C7_Witness ==
    /\ last_call.op = "get_pending_requests"
    /\ ~last_call.flag
    /\ \E r \in Range(last_call.list) : now = requests[r].expires_at

\* C8: no step moves a request whose status is approved, rejected or
\* expired back to pending.
C8_NeverBackToPending ==
    [][\A r \in 1..Len(requests) :
          requests[r].status \in Terminal => requests'[r].status /= "pending"]_vars

C8_Witness ==
    \E r \in 1..Len(requests) :
        /\ review_log[r].approve_true
        /\ review_log[r].found_expired
        /\ requests[r].status = "expired"

\* C9: when submit_for_approval returns, or approve_request or
\* reject_request returns True, the log holds a snapshot of the request with
\* the resulting status, whatever the append did.
C9_SnapshotLogged ==
    (\/ last_call.op = "submit_for_approval"
     \/ (last_call.op \in {"approve_request", "reject_request"} /\ last_call.ok))
    => \E i \in 1..Len(queue_file) :
          /\ queue_file[i] = to_dict(requests[last_call.target], actions)
          /\ queue_file[i].status =
                CASE last_call.op = "submit_for_approval" -> "pending"
                  [] last_call.op = "approve_request" -> "approved"
                  [] OTHER -> "rejected"

\* the execute calls of the running cycle, in order
CycleTrace == SelectSeq(exec_trace, LAMBDA e : e.cycle = cycle.no)

\* C10: when the handler of the k-th Action of a batch raises, the cycle
\* still ends with one result per Action: the k-th is a failure carrying
\* the error, the Actions after it are executed, and every other result
\* reports its own handler's outcome.
C10_BatchIsolation ==
    pc = "summary" =>
        LET batch == cycle.auto_execute \o cycle.approved_actions
            results == cycle.auto_results \o cycle.approved_results
        IN  /\ Len(results) = Len(batch)
            /\ Len(CycleTrace) = Len(batch)
            /\ \A j \in 1..Len(batch) :
                  /\ CycleTrace[j].action = batch[j]
                  /\ CycleTrace[j].outcome = "raise" =>
                        /\ ~results[j].success
                        /\ results[j].message = "Execution error"
                        /\ CycleTrace[j].result.error = "exception text"
                  /\ CycleTrace[j].outcome = "success" => results[j].success
                  /\ CycleTrace[j].outcome = "failure" =>
                        /\ ~results[j].success
                        /\ results[j].message = "handler message"

C10_Witness ==
    /\ pc = "summary"
    /\ \E j, k \in 1..Len(CycleTrace) :
          /\ j < k
          /\ CycleTrace[j].outcome = "raise"
          /\ CycleTrace[k].outcome = "success"

\* C11 as stated: a run_single_cycle that detects zero Issues returns
\* issues_detected = 0, actions_recommended = 0 and total_executed = 0, in
\* every state of the approval queue.
C11_ZeroIssuesNothingDone ==
    (pc = "summary" /\ cycle.kind = "single" /\ cycle.n_issues = 0) =>
        /\ CycleSummary.issues_detected = 0
        /\ CycleSummary.actions_recommended = 0
        /\ CycleSummary.total_executed = 0

\* C11 amended: a run_single_cycle that detects zero Issues returns
\* issues_detected = 0, actions_recommended = 0, auto_executed = 0 and
\* submitted_for_approval = 0; its total_executed is the number of requests
\* of the queue that were approved when the cycle drained it, each of
\* which it executes.
C11_ZeroIssuesOnlyDrained ==
    (pc = "summary" /\ cycle.kind = "single" /\ cycle.n_issues = 0) =>
        /\ CycleSummary.issues_detected = 0
        /\ CycleSummary.actions_recommended = 0
        /\ CycleSummary.auto_executed = 0
        /\ CycleSummary.submitted_for_approval = 0
        /\ CycleSummary.approved_executed =
              Cardinality(drain_log[Len(drain_log)].held_approved)
        /\ CycleSummary.total_executed = CycleSummary.approved_executed
        /\ Len(CycleTrace) = CycleSummary.total_executed

C11_Witness ==
    /\ pc = "summary"
    /\ cycle.kind = "single"
    /\ cycle.n_issues = 0
    /\ CycleSummary.total_executed = 1
    /\ pending_requests = <<>>

\* C12: every Action recommend_actions returns has requires_approval =
\* FALSE when its risk is low and TRUE when its risk is medium or high
\* (the retrain_model and rollback_model Actions); the auto-approval pass
\* keeps the list and its order, never changes requires_approval of an
\* Action that is not low-risk and never turns FALSE into TRUE.
C12_ApprovalFollowsRisk ==
    eng_pc = "done" =>
        /\ Len(recommended_actions) = Len(decided_actions)
        /\ \A i \in 1..Len(recommended_actions) :
              LET before == decided_actions[i]
                  after == recommended_actions[i]
              IN  /\ after.risk_level \in {"low", "medium", "high"}
                  /\ after.risk_level = "low" => ~after.requires_approval
                  /\ after.risk_level \in {"medium", "high"} => after.requires_approval
                  /\ after.risk_level = "medium" <=> after.action_type = "retrain_model"
                  /\ after.risk_level = "high" <=> after.action_type = "rollback_model"
                  /\ [after EXCEPT !.requires_approval = before.requires_approval] = before
                  /\ before.risk_level /= "low" =>
                        after.requires_approval = before.requires_approval
                  /\ ~before.requires_approval => ~after.requires_approval

C12_Witness ==
    /\ eng_pc = "done"
    /\ approve_low_risk
    /\ \E i, j, k \in 1..Len(recommended_actions) :
          /\ recommended_actions[i].risk_level = "low"
          /\ recommended_actions[j].risk_level = "medium"
          /\ recommended_actions[k].risk_level = "high"

\* the requests that wrap the Action object a
RequestsOf(a) == {r \in 1..Len(requests) : requests[r].action = a}

\* the Action objects the execute calls of the running cycle were made on
CycleExecuted == [k \in 1..Len(CycleTrace) |-> CycleTrace[k].action]

\* s lists increasing numbers
Increasing(s) == \A j, k \in 1..Len(s) : j < k => s[j] < s[k]

C14_DistinctRequestIds ==
    /\ \A r, q \in 1..Len(requests) :
          r /= q => requests[r].request_id /= requests[q].request_id
    /\ (last_call.op \in {"approve_request", "reject_request"} /\ last_call.target /= 0) =>
          \A q \in 1..Len(requests) :
              requests[q].request_id = requests[last_call.target].request_id
                  => q = last_call.target

\* C15 as stated: every call of execute, whatever its outcome and also in
\* dry-run mode, appends exactly one record to the execution history, so
\* the history is as long as the number of execute calls made.
C15_RecordPerCall ==
    Len(execution_history) = Len(exec_trace)

\* C15 amended: outside dry-run mode every call of execute appends exactly
\* one record {action snapshot, result snapshot}, whatever the outcome
\* (success, failure, handler exception, unknown type); the k-th record
\* stays the snapshot taken at the k-th call, and the history is as long as
\* the number of calls made.  In dry-run mode execute appends nothing.
C15_RecordPerRealCall ==
    IF dry_run
    THEN execution_history = <<>>
    ELSE /\ Len(execution_history) = Len(exec_trace)
         /\ \A k \in 1..Len(exec_trace) :
               /\ execution_history[k].result = exec_trace[k].result
               /\ execution_history[k].action =
                     [actions[exec_trace[k].action] EXCEPT
                         !.status = exec_trace[k].status_after]

C15_Witness ==
    /\ ~dry_run
    /\ Len(execution_history) >= 2
    /\ \E j, k \in 1..Len(exec_trace) :
          /\ exec_trace[j].outcome = "not_invoked"
          /\ exec_trace[k].outcome = "raise"
          /\ j < k

\* C16: for a data_drift Issue the Decision Engine returns send_alert,
\* then retrain_model (risk medium, requires approval) exactly when the
\* severity is high or critical or n_drifted_features >= 5, then
\* generate_report of type drift_analysis; and a drift Issue made by
\* check_data_drift has severity high for 5 or more drifted features,
\* medium for 3 or 4, low below, so it leads to retrain_model exactly when
\* n_drifted_features >= 5.
C16_DriftRouting ==
    eng_pc = "done" =>
        /\ (issue_list /= <<>> /\ \A i \in 1..Len(issue_list) :
                                     issue_list[i].issue_type = "data_drift") =>
              LET retrains(issue) == issue.severity \in {"high", "critical"}
                                     \/ issue.n_drifted_features >= 5
                  expected == Concat([i \in 1..Len(issue_list) |->
                                 IF retrains(issue_list[i])
                                 THEN <<"send_alert", "retrain_model", "generate_report">>
                                 ELSE <<"send_alert", "generate_report">>])
              IN  /\ Len(recommended_actions) = Len(expected)
                  /\ \A k \in 1..Len(expected) :
                        LET a == recommended_actions[k]
                        IN  /\ a.action_type = expected[k]
                            /\ a.related_issue = "data_drift"
                            /\ a.action_type = "retrain_model" =>
                                  a.risk_level = "medium" /\ a.requires_approval
                            /\ a.action_type = "generate_report" =>
                                  a.param = "drift_analysis"
        /\ \A j \in 1..Len(check_log) : check_log[j].check = "drift" =>
              /\ check_log[j].n_issues <= 1
              /\ \A i \in 1..Len(issue_list) : issue_list[i].issue_type = "data_drift" =>
                    LET n == issue_list[i].n_drifted_features
                    IN  /\ issue_list[i].severity =
                              IF n >= 5 THEN "high" ELSE IF n >= 3 THEN "medium" ELSE "low"
                        /\ n >= 5 <=>
                              \E k \in 1..Len(recommended_actions) :
                                  /\ recommended_actions[k].action_type = "retrain_model"
                                  /\ recommended_actions[k].related_issue = "data_drift"

C16_Witness ==
    /\ eng_pc = "done"
    /\ \E j \in 1..Len(check_log) : check_log[j].check = "drift" /\ check_log[j].n_issues = 1
    /\ issue_list = <<Issue("data_drift", "high", 5, 0)>>
    /\ Len(recommended_actions) = 3
    /\ recommended_actions[2].action_type = "retrain_model"

\* C17: for a performance_degradation Issue the Decision Engine returns
\* send_alert with priority high, collect_diagnostics, and exactly one of
\* rollback_model (risk high, requires approval) when the severity is
\* critical, retrain_model (risk medium, requires approval) otherwise.
C17_PerformanceRouting ==
    (eng_pc = "done" /\ issue_list /= <<>>
       /\ \A i \in 1..Len(issue_list) :
             issue_list[i].issue_type = "performance_degradation") =>
        /\ Len(recommended_actions) = 3 * Len(issue_list)
        /\ \A i \in 1..Len(issue_list) :
              LET alert == recommended_actions[3 * i - 2]
                  diagnostics == recommended_actions[3 * i - 1]
                  remedy == recommended_actions[3 * i]
              IN  /\ alert.action_type = "send_alert"
                  /\ alert.param = "high"
                  /\ diagnostics.action_type = "collect_diagnostics"
                  /\ remedy.requires_approval
                  /\ IF issue_list[i].severity = "critical"
                     THEN remedy.action_type = "rollback_model" /\ remedy.risk_level = "high"
                     ELSE remedy.action_type = "retrain_model" /\ remedy.risk_level = "medium"
                  /\ Cardinality({k \in {3 * i - 2, 3 * i - 1, 3 * i} :
                        recommended_actions[k].action_type
                            \in {"rollback_model", "retrain_model"}}) = 1

C17_Witness ==
    /\ eng_pc = "done"
    /\ Len(check_log) = 1
    /\ Len(issue_list) = 2
    /\ issue_list[1].issue_type = "performance_degradation"
    /\ issue_list[1].severity = "critical"
    /\ issue_list[2].issue_type = "performance_degradation"
    /\ issue_list[2].severity = "high"
    /\ recommended_actions[3].action_type = "rollback_model"
    /\ recommended_actions[6].action_type = "retrain_model"

\* C18: in continuous mode an exception that leaves run_single_cycle, or
\* an interrupt during the cycle or the sleep, is followed by stop() and
\* nothing else: no cycle begins after it, and when start() has returned
\* the running flag is FALSE; a cycle begins only after the cycle before
\* it has ended.
C18_ErrorStopsLoop ==
    LET n == Len(loop_log)
        raises == {k \in 1..n : loop_log[k].event = "raise"}
        begins == {k \in 1..n : loop_log[k].event = "begin"}
        closes == {k \in 1..n : loop_log[k].event = "end"
                                \/ (loop_log[k].event = "raise"
                                    /\ loop_log[k].at \in {"diagnose", "decide", "execute"})}
    IN  /\ \A k \in raises :
              /\ loop_pc \in {"handler", "returned"}
              /\ \A j \in k + 1..n : loop_log[j].event = "stop" /\ j = n /\ j = k + 1
              /\ k = n <=> loop_pc = "handler"
              /\ loop_pc = "returned" =>
                    loop_log[n].event = "stop" /\ loop_log[n].at = "handler"
        /\ Cardinality(raises) <= 1
        /\ loop_pc = "handler" => raises /= {}
        /\ loop_pc \notin {"propagated"}
        /\ loop_pc = "returned" => ~running
        /\ \A b \in begins :
              \/ /\ b = CHOOSE m \in begins : \A o \in begins : o <= m
                 /\ loop_pc \in {"diagnose", "decide", "execute"}
                 /\ \A c \in closes : c < b
              \/ \E c \in closes :
                    /\ b < c
                    /\ \A o \in begins : o > b => o > c
                    /\ \A o \in closes : o > b => o >= c

C18_Witness ==
    /\ loop_pc = "returned"
    /\ ~running
    /\ cycle_count = 2
    /\ \E k \in 1..Len(loop_log) :
          /\ loop_log[k].event = "raise"
          /\ loop_log[k].kind = "KeyboardInterrupt"
          /\ loop_log[k].at = "execute"

\* the checks run_full_diagnosis calls for its arguments
ApplicableChecks ==
    <<"performance">>
    \o (IF current_data /= None THEN <<"drift", "quality">> ELSE <<>>)
    \o (IF predictions /= None THEN <<"anomaly">> ELSE <<>>)

\* C19: when the collaborator of a diagnostic check raises, this check
\* contributes zero Issues, every other applicable check of
\* run_full_diagnosis is still run and contributes its Issues, and the
\* diagnosis returns so that the cycle goes on to its summary.
C19_FailedCheckIsEmpty ==
    /\ \A j \in 1..Len(check_log) :
          check_log[j].raised => check_log[j].n_issues = 0
    /\ (eng_pc \in {"decide", "done"} /\ check_log /= <<>>) =>
          /\ [j \in 1..Len(check_log) |-> check_log[j].check] = ApplicableChecks
          /\ Len(issue_list) = Len(Concat([j \in 1..Len(check_log) |->
                                    [k \in 1..check_log[j].n_issues |-> j]]))

\* the execute calls made on Actions whose type has no handler
UnknownTypeCalls ==
    {k \in 1..Len(exec_trace) :
        actions[exec_trace[k].action].action_type \notin executor_map}

\* C20 as stated: execute on an Action whose type is not one of the seven
\* types of the dispatch table returns a failure result with the message
\* "Unknown action type", and leaves action.status unchanged.
C20_UnknownTypeFails ==
    \A k \in UnknownTypeCalls :
        /\ ~exec_trace[k].result.success
        /\ exec_trace[k].result.message = "Unknown action type"
        /\ exec_trace[k].status_after = exec_trace[k].status_before

\* C20 amended: outside dry-run mode execute on an Action whose type is
\* not one of the seven types of the dispatch table returns a failure
\* result with the message "Unknown action type", without raising, and
\* leaves action.status unchanged; the calls made after it run their
\* handlers and report their outcomes.  In dry-run mode the call returns
\* the successful dry-run result like every other call.
C20_UnknownTypeFailsWhenReal ==
    \A k \in UnknownTypeCalls :
        /\ exec_trace[k].outcome = "not_invoked"
        /\ exec_trace[k].status_after = exec_trace[k].status_before
        /\ actions[exec_trace[k].action].status = exec_trace[k].status_before
        /\ IF dry_run
           THEN /\ exec_trace[k].result.success
                /\ exec_trace[k].result.message = "[DRY RUN] Would execute"
           ELSE /\ ~exec_trace[k].result.success
                /\ exec_trace[k].result.message = "Unknown action type"
                /\ exec_trace[k].result.error = "Executor not implemented"
                /\ \A j \in k + 1..Len(exec_trace) : j \notin UnknownTypeCalls =>
                      /\ exec_trace[j].outcome \in HandlerOutcomes
                      /\ exec_trace[j].result.success <=> exec_trace[j].outcome = "success"
                      /\ exec_trace[j].status_after =
                            IF exec_trace[j].outcome = "success" THEN "completed" ELSE "failed"

C20_Witness ==
    /\ ~dry_run
    /\ \E k \in UnknownTypeCalls :
          /\ k + 1 \in 1..Len(exec_trace)
          /\ k + 1 \notin UnknownTypeCalls
          /\ exec_trace[k + 1].cycle = exec_trace[k].cycle
          /\ exec_trace[k + 1].outcome = "success"
          /\ actions[exec_trace[k].action].status = "pending"
          /\ actions[exec_trace[k + 1].action].status = "completed"

\* C21: a reject_request call whose id is in the list returns TRUE and
\* leaves the request it found rejected, also when this request is past
\* its expires_at, and changes no other request; a reject_request or
\* approve_request call whose id is not in the list returns FALSE and
\* changes no request, no list and no line of the log.
C21_RejectUnconditional ==
    [][/\ (last_call'.op = "reject_request" /\ last_call'.target /= 0) =>
             /\ last_call'.ok
             /\ last_call'.target \in Held
             /\ requests'[last_call'.target].status = "rejected"
             /\ \A q \in 1..Len(requests) :
                   q /= last_call'.target => requests'[q] = requests[q]
             /\ pending_requests' = pending_requests
       /\ (last_call'.op \in {"reject_request", "approve_request"}
             /\ last_call'.target = 0) =>
             /\ ~last_call'.ok
             /\ requests' = requests
             /\ pending_requests' = pending_requests
             /\ queue_file' = queue_file]_vars

C21_Witness ==
    /\ last_call.op = "reject_request"
    /\ last_call.ok
    /\ now > requests[last_call.target].expires_at
    /\ requests[last_call.target].status = "rejected"
    /\ requests[last_call.target].reviewed_at = now

\* C22: in dry-run mode every execute call returns a successful result,
\* invokes no handler and leaves action.status, the execution history and
\* the files of the production directory as they were.
C22_DryRunChangesNothing ==
    dry_run =>
        /\ execution_history = <<>>
        /\ \A i \in 1..Len(actions) : actions[i].status = "pending"
        /\ Len(dir_log) = Len(exec_trace)
        /\ \A k \in 1..Len(exec_trace) :
              /\ exec_trace[k].result.success
              /\ exec_trace[k].result.message = "[DRY RUN] Would execute"
              /\ exec_trace[k].outcome = "not_invoked"
              /\ exec_trace[k].status_after = exec_trace[k].status_before
              /\ dir_log[k].after = dir_log[k].before
              /\ dir_log[k].after = model_dir

C22_Witness ==
    /\ dry_run
    /\ Cardinality(model_dir) = 2
    /\ \E j, k \in 1..Len(exec_trace) :
          /\ actions[exec_trace[j].action].action_type = "rollback_model"
          /\ actions[exec_trace[k].action].action_type = "send_alert"

\* the execute calls in which the rollback handler ran
RollbackCalls ==
    {k \in 1..Len(exec_trace) :
        /\ actions[exec_trace[k].action].action_type = "rollback_model"
        /\ exec_trace[k].outcome /= "not_invoked"}

\* C23: a rollback_model executed on a directory of fewer than two
\* artifacts fails with error "Insufficient model versions" and changes no
\* file; on two or more artifacts it succeeds, the most recent artifact
\* then holds the content the second-most-recent artifact had before, and
\* a backup artifact holds the content the most recent artifact had before.
C23_RollbackSwapsContent ==
    \A k \in RollbackCalls :
        LET before == dir_log[k].before
            after == dir_log[k].after
            model_files == dir_log[k].model_files
        IN  IF Cardinality(before) < 2
            THEN /\ ~exec_trace[k].result.success
                 /\ dir_log[k].error = "Insufficient model versions"
                 /\ after = before
            ELSE /\ exec_trace[k].result.success
                 /\ FileNamed(after, model_files[1]).content =
                       FileNamed(before, model_files[2]).content
                 /\ \E f \in after :
                       /\ f.name.backups > 0
                       /\ f.content = FileNamed(before, model_files[1]).content

\* the execute calls in which the rollback handler replaced the current
\* artifact
SuccessfulRollbacks ==
    {k \in RollbackCalls : exec_trace[k].result.success}

\* C26: after any sequence of successful rollbacks, the content each
\* rollback replaced is still held by some backup artifact of the
\* directory, and each successful rollback left the current artifact with
\* a content different from the one it replaced.
C26_BackupsAccumulate ==
    \A k \in SuccessfulRollbacks :
        LET current_model == dir_log[k].model_files[1]
            replaced == FileNamed(dir_log[k].before, current_model).content
        IN  /\ \E f \in model_dir :
                  f.name.backups > 0 /\ f.content = replaced
            /\ FileNamed(dir_log[k].after, current_model).content /= replaced

\* the remediation an Action stands for: what is to be done, and for which
\* kind of Issue
Remediation(a) ==
    <<a.action_type, a.param, a.related_issue>>

\* C24: re-queuing is idempotent: when the same Issue is detected again in
\* the next cycle while the request for its remediation is still pending,
\* the list holds at most one pending request for that remediation.
C24_RequeueIdempotent ==
    \A r, s \in AwaitingReview :
        (/\ Remediation(actions[requests[r].action]) =
                Remediation(actions[requests[s].action])
         /\ review_log[s].submitted_in = review_log[r].submitted_in + 1)
        => r = s

\* the execute calls made in this step
NewExecutions == (Len(exec_trace) + 1)..Len(exec_trace')

\* requests that wrap the Action object i and for which a reject_request
\* has returned True
RejectedRequestsOf(i) ==
    {r \in 1..Len(requests) : requests[r].action = i /\ review_log[r].reject_true}

\* C27: an Action whose request was rejected by a reject_request that
\* returned True is never executed afterwards: no later step runs a
\* handler on it, whatever the reviewer and the cycles do in between.
C27_RejectedNeverExecuted ==
    [][\A k \in NewExecutions :
          exec_trace'[k].outcome /= "not_invoked"
          => RejectedRequestsOf(exec_trace'[k].action) = {}]_vars

\* C28: execute is called at most once on each Action object, over all
\* cycles and reviewer operations, repeated approve_request calls on the
\* same id included.
C28_ExecutedAtMostOnce ==
    \A k, l \in 1..Len(exec_trace) :
        exec_trace[k].action = exec_trace[l].action => k = l

\* lines of the queue file that record the request r as approved
ApprovedLines(r) ==
    {n \in 1..Len(queue_file) :
        /\ queue_file[n].request_id = requests[r].request_id
        /\ queue_file[n].created_at = requests[r].created_at
        /\ queue_file[n].status = "approved"}

\* an Action was executed after two approve_request calls on its request
\* returned True
C28_Witness ==
    \E r \in 1..Len(requests) :
        /\ Cardinality(ApprovedLines(r)) >= 2
        /\ Cardinality({s \in 1..Len(requests) :
                           requests[s].request_id = requests[r].request_id}) = 1
        /\ \E k \in 1..Len(exec_trace) :
              exec_trace[k].action = requests[r].action /\ exec_trace[k].path = "approved"

\* requests that awaited a review when a new ApprovalManager was built and
\* have not expired since
AwaitedAtRestart ==
    {r \in 1..Len(requests) :
        /\ \E k \in 1..Len(restart_log) : r \in restart_log[k].awaiting
        /\ ~is_expired(requests[r], now)}

C25_DrainAtomic ==
    \A k \in 1..Len(removal_log) :
        \A r \in removal_log[k].removed_approved :
            requests[r].action \in Range(removal_log[k].ret)

\* C30: in continuous mode with no reviewer activity, every request the
\* orchestrator submits is eventually removed from the in-memory list
\* after it has expired.  The request is taken at the end of a cycle that
\* drained the list after the expiry, so that the orchestrator has had a
\* drain in which to remove it.
C30_ExpiredEventuallyRemoved ==
    \A r \in 1..(2 * MaxCycles) :
        (/\ r \in Range(pending_requests)
         /\ is_expired(requests[r], now)
         /\ pc = "summary")
        ~> (r \notin Range(pending_requests))
====
